---- MODULE Spec2Model ----
(***************************************************************************)
(* Model of lib/Dialect/Dialect.cpp: the global ContextMap (LLVMContext -> *)
(* DialectContext) with its per-thread CurrentContextCache, the            *)
(* DialectContext block (make / constructor / destructor) and the          *)
(* Dialect::Key slot table.                                                *)
(*                                                                         *)
(* Threads run the operations step by step; every step is one action.      *)
(* Code that runs under ContextMap::m_mutex is one action per critical     *)
(* section, with the acquisition of the lock a step of its own: the only   *)
(* field read without the lock is a thread's own m_llvmContext (line 86),  *)
(* and a critical section stores to a given cache's m_llvmContext at most  *)
(* once.                                                                   *)
(*                                                                         *)
(* Assertions are modelled as compiled in: a failing assert stops the      *)
(* process (fault # "none", no action is enabled afterwards).  Binding a   *)
(* reference to the null result of CurrentContextCache::get is undefined   *)
(* behaviour: the model records it as a fault and follows the execution no *)
(* further.                                                                *)
(*                                                                         *)
(* Specifications: Spec (worker threads, registry and caches), SpecKeys    *)
(* (the Key slot table together with make / destroy), SpecRemove (Spec     *)
(* plus direct calls of ContextMap::remove), SpecCaches (construction and  *)
(* destruction of the thread_local caches on all threads), SpecDecl (the   *)
(* two name predicates) and SpecLive (lock acquisition as a step of its    *)
(* own, under fairness).                                                   *)
(***************************************************************************)
EXTENDS Integers, Sequences, FiniteSets

\* ---------------------------------------------------------------- bounds
NumThreads == 3      \* threads 1..NumThreads (one thread_local cache each)
NumWorkers == 2      \* threads 1..NumWorkers call make / destroy / any lookup
NumContexts == 2     \* LLVMContext addresses 1..NumContexts
MaxBlocks == 3       \* DialectContext objects ever allocated
MaxKeys == 3         \* Dialect::Key objects (addresses) 1..MaxKeys
MaxKeyCtors == 4     \* Key constructor calls in one run
MaxNameLen == 3      \* characters of a function or operation name
MaxLiveBlocks == 2   \* DialectContext objects allocated in a run of SpecLive

\* ------------------------------------------------------------- constants
nullptr == 0
\* std::numeric_limits<unsigned>::max(), written as the signed value of the
\* same 32-bit pattern (2^32 - 1 is -1), so that UINT_MAX + 1 wraps to 0.
UINT_MAX == -1
\* Values of a Dialect* slot of the trailing array.
Uninit == -1         \* malloc'ed, not yet written
NoThread == 0        \* m_mutex not held

Threads == 1..NumThreads
Workers == 1..NumWorkers
Contexts == 1..NumContexts
BlockIds == 1..MaxBlocks
KeyIds == 1..MaxKeys
\* Characters of names, and the names (StringRef contents) up to MaxNameLen.
Alphabet == {"a", "b", "."}
Names == UNION {[1..n -> Alphabet] : n \in 0..MaxNameLen}

VARIABLES
  m_mutex,            \* ContextMap::m_mutex: NoThread or the holder
  m_map,              \* ContextMap::m_map: set of <<LLVMContext*, DialectContext*>>
  m_caches,           \* ContextMap::m_caches: head of the intrusive list
  cacheLive,          \* [thread -> the thread_local cache has been constructed]
  m_llvmContext,      \* [thread -> CurrentContextCache::m_llvmContext]
  m_dialectContext,   \* [thread -> CurrentContextCache::m_dialectContext]
  m_pprev,            \* [thread -> m_pprev]: 0 is &map.m_caches, u is &cache(u).m_next
  m_next,             \* [thread -> m_next]
  blocks,             \* [block id -> the DialectContext object]
  nextBlock,          \* next block id malloc hands out
  keys,               \* Dialect::Key::getRegisteredKeys(): sequence of Key* (0 = nullptr)
  m_index,            \* [key -> Dialect::Key::m_index]
  pc,                 \* [thread -> position]
  llvmContext,        \* [thread -> the llvmContext argument of the running call]
  self,               \* [thread -> the DialectContext (this) of the running call]
  ret,                \* [thread -> value returned by CurrentContextCache::get]
  snap,               \* [thread -> <<m_llvmContext, m_dialectContext>> read at line 86]
  fault,              \* "none", "assert_insert", "assert_remove", "null_deref"
  keysCreated,        \* history: number of Key constructor calls
  peakKeys,           \* history: largest number of keys registered at one time
  fnName,             \* fn->getName() of the call of is*OperationDecl
  name,               \* the name argument of the call of is*OperationDecl
  simpleRet,          \* <<result>> of isSimpleOperationDecl, <<>> before the call
  overloadedRet       \* <<result>> of isOverloadedOperationDecl, <<>> before the call

vars == <<m_mutex, m_map, m_caches, cacheLive, m_llvmContext, m_dialectContext,
          m_pprev, m_next, blocks, nextBlock, keys, m_index, pc, llvmContext,
          self, ret, snap, fault, keysCreated, peakKeys, fnName, name,
          simpleRet, overloadedRet>>

registryVars == <<m_mutex, m_map, m_caches, cacheLive, m_llvmContext,
                  m_dialectContext, m_pprev, m_next>>
cacheListVars == <<m_caches, cacheLive, m_pprev, m_next>>
keyVars == <<keys, m_index, keysCreated, peakKeys>>
declVars == <<fnName, name, simpleRet, overloadedRet>>

\* ------------------------------------------------------- DenseMap helpers
\* A lookup that ignores the key and returns any mapped block.
MapLookupAnyEntry(map, h) ==
  IF map = {} THEN nullptr ELSE (CHOOSE e \in map : TRUE)[2]

\* m_map.lookup(h): the mapped block, or nullptr when h has no entry.
MapLookup(map, h) ==
  IF \E b \in BlockIds : <<h, b>> \in map
    THEN CHOOSE b \in BlockIds : <<h, b>> \in map
    ELSE nullptr

\* An emplace that never finds the key present.
TryEmplaceAlwaysInserts(map, h) == TRUE

\* m_map.try_emplace(h, b): inserts only when h has no entry.
TryEmplaceInserted(map, h) == \A b \in BlockIds : <<h, b>> \notin map

TryEmplace(map, h, b) ==
  IF TryEmplaceInserted(map, h) THEN map \cup {<<h, b>>} ELSE map

\* An erase that leaves the entry in place.
MapEraseNothing(map, h) == map

\* m_map.erase(h)
MapErase(map, h) == {e \in map : e[1] # h}

\* ------------------------------------------------- usage rule of a context
\* Lines 112-114 and 134-137: the thread that creates or destroys the state
\* of an LLVMContext owns the context exclusively; no other thread does
\* anything with the same context at the same time.  Lookups of one context
\* by several threads may overlap each other.
GetPcs == {"cache_lock", "cache_ctor", "get_load", "get_lock", "get_slow",
           "get_deref"}
MakePcs == {"insert_lock", "insert", "make_fill"}
DtorPcs == {"remove_lock", "remove", "dtor_slots"}

\* No other thread is creating or destroying the state of h.
NotOwnedElsewhere(t, h) ==
  \A u \in Threads \ {t} :
    ~(pc[u] \in MakePcs \cup DtorPcs /\ llvmContext[u] = h)

\* No other thread is doing anything with h.
ExclusiveUse(t, h) ==
  \A u \in Threads \ {t} : ~(pc[u] # "idle" /\ llvmContext[u] = h)

Running == fault = "none"

\* ------------------------------------------- CurrentContextCache (56-94)
\* The caches reachable from c by m_next (the walk of the loop at line 144).
RECURSIVE CacheWalk(_, _)
CacheWalk(c, fuel) ==
  IF c = nullptr \/ fuel = 0 THEN {}
  ELSE {c} \cup CacheWalk(m_next[c], fuel - 1)

RegisteredCaches == CacheWalk(m_caches, NumThreads)

\* DialectContext::get(context) / CurrentContextCache::get(&context) is called.
\* `static thread_local CurrentContextCache cache` is constructed on the
\* thread's first call.
GetCall(t, h) ==
  /\ Running
  /\ pc[t] = "idle"
  /\ NotOwnedElsewhere(t, h)
  /\ llvmContext' = [llvmContext EXCEPT ![t] = h]
  /\ pc' = [pc EXCEPT ![t] = IF cacheLive[t] THEN "get_load" ELSE "cache_lock"]
  /\ UNCHANGED <<registryVars, blocks, nextBlock, keyVars, self, ret, snap, fault>>
  /\ UNCHANGED declVars

\* CurrentContextCache(): std::lock_guard(map.m_mutex), line 66.
CacheCtorLock(t) ==
  /\ Running
  /\ pc[t] = "cache_lock"
  /\ m_mutex = NoThread
  /\ m_mutex' = t
  /\ pc' = [pc EXCEPT ![t] = "cache_ctor"]
  /\ UNCHANGED <<m_map, cacheListVars, m_llvmContext, m_dialectContext, blocks,
                 nextBlock, keyVars, llvmContext, self, ret, snap, fault>>
  /\ UNCHANGED declVars

\* A constructor that returns with the mutex still locked.
CacheCtorKeepsLock(t) ==
  /\ Running
  /\ pc[t] = "cache_ctor"
  /\ m_mutex = t
  /\ m_next' = [m_next EXCEPT ![t] = m_caches]
  /\ m_pprev' = [u \in Threads |->
                   IF u = t THEN 0
                   ELSE IF m_caches # nullptr /\ u = m_caches THEN t
                   ELSE m_pprev[u]]
  /\ m_caches' = t
  /\ cacheLive' = [cacheLive EXCEPT ![t] = TRUE]
  /\ pc' = [pc EXCEPT ![t] = "get_load"]
  /\ UNCHANGED <<m_mutex, m_map, m_llvmContext, m_dialectContext, blocks,
                 nextBlock, keyVars, llvmContext, self, ret, snap, fault>>
  /\ UNCHANGED declVars

\* CurrentContextCache(): lines 67-72, then the lock is released.
CacheCtor(t) ==
  /\ Running
  /\ pc[t] = "cache_ctor"
  /\ m_mutex = t
  /\ m_next' = [m_next EXCEPT ![t] = m_caches]
  /\ m_pprev' = [u \in Threads |->
                   IF u = t THEN 0
                   ELSE IF m_caches # nullptr /\ u = m_caches THEN t
                   ELSE m_pprev[u]]
  /\ m_caches' = t
  /\ cacheLive' = [cacheLive EXCEPT ![t] = TRUE]
  /\ m_mutex' = NoThread
  /\ pc' = [pc EXCEPT ![t] = "get_load"]
  /\ UNCHANGED <<m_map, m_llvmContext, m_dialectContext, blocks, nextBlock,
                 keyVars, llvmContext, self, ret, snap, fault>>
  /\ UNCHANGED declVars

\* Thread exit: ~CurrentContextCache() takes the lock, line 76.
CacheDtorLock(t) ==
  /\ Running
  /\ pc[t] = "idle"
  /\ cacheLive[t]
  /\ m_mutex = NoThread
  /\ m_mutex' = t
  /\ pc' = [pc EXCEPT ![t] = "cache_dtor"]
  /\ UNCHANGED <<m_map, cacheListVars, m_llvmContext, m_dialectContext, blocks,
                 nextBlock, keyVars, llvmContext, self, ret, snap, fault>>
  /\ UNCHANGED declVars

\* A destructor without lines 77-78: the successor keeps its back-link.
CacheDtorKeepsBackLink(t) ==
  /\ Running
  /\ pc[t] = "cache_dtor"
  /\ m_mutex = t
  /\ m_pprev' = [m_pprev EXCEPT ![t] = 0]
  /\ m_caches' = IF m_pprev[t] = 0 THEN m_next[t] ELSE m_caches
  /\ m_next' = [u \in Threads |->
                  IF u = t THEN nullptr
                  ELSE IF m_pprev[t] # 0 /\ u = m_pprev[t] THEN m_next[t]
                  ELSE m_next[u]]
  /\ cacheLive' = [cacheLive EXCEPT ![t] = FALSE]
  /\ m_llvmContext' = [m_llvmContext EXCEPT ![t] = nullptr]
  /\ m_dialectContext' = [m_dialectContext EXCEPT ![t] = nullptr]
  /\ m_mutex' = NoThread
  /\ pc' = [pc EXCEPT ![t] = "idle"]
  /\ UNCHANGED <<m_map, blocks, nextBlock, keyVars, llvmContext, self, ret,
                 snap, fault>>
  /\ UNCHANGED declVars

\* ~CurrentContextCache(): lines 77-79, then the lock is released.  The
\* thread is gone; a later thread with the same number starts with a cache
\* that is not constructed.
CacheDtor(t) ==
  /\ Running
  /\ pc[t] = "cache_dtor"
  /\ m_mutex = t
  /\ m_pprev' = [u \in Threads |->
                   IF u = t THEN 0
                   ELSE IF m_next[t] # nullptr /\ u = m_next[t] THEN m_pprev[t]
                   ELSE m_pprev[u]]
  /\ m_caches' = IF m_pprev[t] = 0 THEN m_next[t] ELSE m_caches
  /\ m_next' = [u \in Threads |->
                  IF u = t THEN nullptr
                  ELSE IF m_pprev[t] # 0 /\ u = m_pprev[t] THEN m_next[t]
                  ELSE m_next[u]]
  /\ cacheLive' = [cacheLive EXCEPT ![t] = FALSE]
  /\ m_llvmContext' = [m_llvmContext EXCEPT ![t] = nullptr]
  /\ m_dialectContext' = [m_dialectContext EXCEPT ![t] = nullptr]
  /\ m_mutex' = NoThread
  /\ pc' = [pc EXCEPT ![t] = "idle"]
  /\ UNCHANGED <<m_map, blocks, nextBlock, keyVars, llvmContext, self, ret,
                 snap, fault>>
  /\ UNCHANGED declVars

\* A lookup without the fast path: every call takes the slow path.
CacheHitNever(t, h) == FALSE

\* A fast path that takes any non-empty cache for a hit.
CacheHitAnyHandle(t, h) == m_llvmContext[t] # nullptr

\* Line 86: the fast-path test, a relaxed atomic load of the own cache.
CacheHit(t, h) == m_llvmContext[t] = h

\* Lines 86 and 92: on a hit the cached block is returned.  (Only the owning
\* thread writes m_dialectContext, so reading it with the load is no loss.)
GetLoad(t) ==
  /\ Running
  /\ pc[t] = "get_load"
  /\ snap' = [snap EXCEPT ![t] = <<m_llvmContext[t], m_dialectContext[t]>>]
  /\ IF CacheHit(t, llvmContext[t])
       THEN /\ ret' = [ret EXCEPT ![t] = m_dialectContext[t]]
            /\ pc' = [pc EXCEPT ![t] = "get_deref"]
       ELSE /\ pc' = [pc EXCEPT ![t] = "get_lock"]
            /\ UNCHANGED ret
  /\ UNCHANGED <<registryVars, blocks, nextBlock, keyVars, llvmContext, self,
                 fault>>
  /\ UNCHANGED declVars

\* A slow path that enters its critical section without waiting for the
\* mutex to be free.
GetLockWithoutWaiting(t) ==
  /\ Running
  /\ pc[t] = "get_lock"
  /\ m_mutex' = t
  /\ pc' = [pc EXCEPT ![t] = "get_slow"]
  /\ UNCHANGED <<m_map, cacheListVars, m_llvmContext, m_dialectContext, blocks,
                 nextBlock, keyVars, llvmContext, self, ret, snap, fault>>
  /\ UNCHANGED declVars

\* Line 88: the slow path takes the lock.
GetLock(t) ==
  /\ Running
  /\ pc[t] = "get_lock"
  /\ m_mutex = NoThread
  /\ m_mutex' = t
  /\ pc' = [pc EXCEPT ![t] = "get_slow"]
  /\ UNCHANGED <<m_map, cacheListVars, m_llvmContext, m_dialectContext, blocks,
                 nextBlock, keyVars, llvmContext, self, ret, snap, fault>>
  /\ UNCHANGED declVars

\* Lines 89-92: store the handle, look the block up, release the lock and
\* return cache.m_dialectContext.
GetSlow(t) ==
  /\ Running
  /\ pc[t] = "get_slow"
  /\ m_mutex = t
  /\ m_llvmContext' = [m_llvmContext EXCEPT ![t] = llvmContext[t]]
  /\ m_dialectContext' =
       [m_dialectContext EXCEPT ![t] = MapLookup(m_map, llvmContext[t])]
  /\ m_mutex' = NoThread
  /\ ret' = [ret EXCEPT ![t] = MapLookup(m_map, llvmContext[t])]
  /\ pc' = [pc EXCEPT ![t] = "get_deref"]
  /\ UNCHANGED <<m_map, cacheListVars, blocks, nextBlock, keyVars, llvmContext,
                 self, snap, fault>>
  /\ UNCHANGED declVars

\* Line 214: DialectContext::get returns *result.  A null result is the
\* lookup of an unregistered context: undefined behaviour.
GetDeref(t) ==
  /\ Running
  /\ pc[t] = "get_deref"
  /\ IF ret[t] = nullptr
       THEN /\ fault' = "null_deref"
            /\ pc' = [pc EXCEPT ![t] = "undefined"]
            /\ UNCHANGED <<llvmContext, ret, snap>>
       ELSE /\ pc' = [pc EXCEPT ![t] = "idle"]
            /\ llvmContext' = [llvmContext EXCEPT ![t] = nullptr]
            /\ ret' = [ret EXCEPT ![t] = nullptr]
            /\ snap' = [snap EXCEPT ![t] = <<nullptr, nullptr>>]
            /\ UNCHANGED fault
  /\ UNCHANGED <<registryVars, blocks, nextBlock, keyVars, self>>
  /\ UNCHANGED declVars

\* ------------------------------------------------ Dialect::Key (154-177)
\* The slots of the keys registered now: index i is in use when keys[i] is set.
RegisteredDescs == {i - 1 : i \in {j \in 1..Len(keys) : keys[j] # nullptr}}

RegisteredKeys == {k \in KeyIds : m_index[k] # UINT_MAX}

\* Lines 162-168: the position (1-based) of the first null entry, or
\* Len(ks) + 1 when the loop runs to the end.
RECURSIVE ScanKeys(_, _)
ScanKeys(ks, i) ==
  IF i > Len(ks) THEN i
  ELSE IF ks[i] = nullptr THEN i
  ELSE ScanKeys(ks, i + 1)

\* A key constructor that always takes the first slot.
AlwaysFirstPosition(ks) == 1

\* A key constructor that never reuses a released slot.
AlwaysAppendPosition(ks) == Len(ks) + 1


FirstFreePosition(ks) == ScanKeys(ks, 1)

\* A key constructor that also gives every made block a slot for the new key.
KeyCtorGrowingBlocks(k) ==
  /\ Running
  /\ m_index[k] = UINT_MAX
  /\ keysCreated < MaxKeyCtors
  /\ LET p == FirstFreePosition(keys) IN
       /\ keys' = IF p <= Len(keys) THEN [keys EXCEPT ![p] = k]
                                    ELSE Append(keys, k)
       /\ m_index' = [m_index EXCEPT ![k] = p - 1]
       /\ blocks' = [b \in BlockIds |->
                       IF blocks[b].state = "made" /\ p > blocks[b].size
                         THEN [blocks[b] EXCEPT
                                 !.size = p,
                                 !.slots = [i \in 1..p |->
                                              IF i <= blocks[b].size
                                                THEN blocks[b].slots[i]
                                                ELSE nullptr]]
                         ELSE blocks[b]]
  /\ keysCreated' = keysCreated + 1
  /\ peakKeys' = IF Cardinality(RegisteredKeys) + 1 > peakKeys
                   THEN Cardinality(RegisteredKeys) + 1 ELSE peakKeys
  /\ UNCHANGED <<registryVars, nextBlock, pc, llvmContext, self, ret, snap, fault>>
  /\ UNCHANGED declVars

\* Dialect::Key::Key(), lines 159-172.
KeyCtor(k) ==
  /\ Running
  /\ m_index[k] = UINT_MAX
  /\ keysCreated < MaxKeyCtors
  /\ LET p == FirstFreePosition(keys) IN
       /\ keys' = IF p <= Len(keys) THEN [keys EXCEPT ![p] = k]
                                    ELSE Append(keys, k)
       /\ m_index' = [m_index EXCEPT ![k] = p - 1]
  /\ keysCreated' = keysCreated + 1
  /\ peakKeys' = IF Cardinality(RegisteredKeys) + 1 > peakKeys
                   THEN Cardinality(RegisteredKeys) + 1 ELSE peakKeys
  /\ UNCHANGED <<registryVars, blocks, nextBlock, pc, llvmContext, self, ret,
                 snap, fault>>
  /\ UNCHANGED declVars

\* Dialect::Key::~Key(), lines 174-177.
KeyDtor(k) ==
  /\ Running
  /\ m_index[k] # UINT_MAX
  /\ keys' = [keys EXCEPT ![m_index[k] + 1] = nullptr]
  /\ m_index' = [m_index EXCEPT ![k] = UINT_MAX]
  /\ UNCHANGED <<registryVars, blocks, nextBlock, pc, llvmContext, self, ret,
                 snap, fault, keysCreated, peakKeys>>
  /\ UNCHANGED declVars

\* --------------------------------------------- DialectContext (179-211)
FreeBlock ==
  [state |-> "free", handle |-> nullptr, size |-> 0, slots |-> <<>>,
   dialects |-> {}, noKeyYet |-> FALSE]

\* Lines 196-198: the maximum of desc.index + 1 over the descriptors, in
\* unsigned arithmetic (UINT_MAX + 1 is 0).
RECURSIVE MaxIndexPlusOne(_, _)
MaxIndexPlusOne(ds, acc) ==
  IF ds = {} THEN acc
  ELSE LET d == CHOOSE x \in ds : TRUE
           n == d + 1
       IN  MaxIndexPlusOne(ds \ {d}, IF n > acc THEN n ELSE acc)

\* An array sized by the number of descriptors.
dialectArrayCount(dialects) == Cardinality(dialects)


dialectArraySize(dialects) == MaxIndexPlusOne(dialects, 0)

\* desc.make(context) for the descriptor with index i.
MadeDialect(i) == i + 1

\* Line 205: std::uninitialized_fill_n(dialectArray, dialectArraySize, nullptr).
FilledSlots(size) == [i \in 1..size |-> nullptr]

\* Lines 207-208: dialectArray[desc.index] = desc.make(context).
InstalledSlots(slots, dialects) ==
  [i \in 1..Len(slots) |-> IF (i - 1) \in dialects THEN MadeDialect(i - 1)
                                                  ELSE slots[i]]

\* Lines 187-192: the dialects are deleted and the memory of the block is
\* released; what remains is the record of which context the block was for.
FreedBlock(h) ==
  [state |-> "freed", handle |-> h, size |-> 0, slots |-> <<>>,
   dialects |-> {}, noKeyYet |-> FALSE]

\* DialectContext::make, lines 196-203 and 179-181: size the array, malloc,
\* start the constructor, which sets m_llvmContext and m_dialectArraySize and
\* enters ContextMap::insert, taking the lock (line 98).  The trailing array
\* is not written yet.  (noKeyYet is history: no Key had been constructed
\* when make was called.)
MakeBegin(t, h, dialects) ==
  /\ Running
  /\ pc[t] = "idle"
  /\ ExclusiveUse(t, h)
  /\ nextBlock <= MaxBlocks
  /\ m_mutex = NoThread
  /\ m_mutex' = t
  /\ blocks' = [blocks EXCEPT ![nextBlock] =
                  [state |-> "header", handle |-> h,
                   size |-> dialectArraySize(dialects),
                   slots |-> [i \in 1..dialectArraySize(dialects) |-> Uninit],
                   dialects |-> dialects, noKeyYet |-> (keysCreated = 0)]]
  /\ nextBlock' = nextBlock + 1
  /\ self' = [self EXCEPT ![t] = nextBlock]
  /\ llvmContext' = [llvmContext EXCEPT ![t] = h]
  /\ pc' = [pc EXCEPT ![t] = "insert"]
  /\ UNCHANGED <<m_map, cacheListVars, m_llvmContext, m_dialectContext, keyVars,
                 ret, snap, fault>>
  /\ UNCHANGED declVars

\* ContextMap::insert, lines 99-102: try_emplace, assert(inserted), unlock.
Insert(t) ==
  /\ Running
  /\ pc[t] = "insert"
  /\ m_mutex = t
  /\ m_map' = TryEmplace(m_map, llvmContext[t], self[t])
  /\ IF TryEmplaceInserted(m_map, llvmContext[t])
       THEN /\ m_mutex' = NoThread
            /\ pc' = [pc EXCEPT ![t] = "make_fill"]
            /\ UNCHANGED fault
       ELSE /\ fault' = "assert_insert"
            /\ pc' = [pc EXCEPT ![t] = "abort"]
            /\ UNCHANGED m_mutex
  /\ UNCHANGED <<cacheListVars, m_llvmContext, m_dialectContext, blocks,
                 nextBlock, keyVars, llvmContext, self, ret, snap>>
  /\ UNCHANGED declVars

\* DialectContext::make, lines 204-210: fill the array with nullptr, install
\* the dialects and return the block.
MakeFinish(t) ==
  /\ Running
  /\ pc[t] = "make_fill"
  /\ blocks' = [blocks EXCEPT
                  ![self[t]].slots =
                     InstalledSlots(FilledSlots(blocks[self[t]].size),
                                    blocks[self[t]].dialects),
                  ![self[t]].state = "made"]
  /\ pc' = [pc EXCEPT ![t] = "idle"]
  /\ self' = [self EXCEPT ![t] = nullptr]
  /\ llvmContext' = [llvmContext EXCEPT ![t] = nullptr]
  /\ UNCHANGED <<registryVars, nextBlock, keyVars, ret, snap, fault>>
  /\ UNCHANGED declVars

\* ~DialectContext() of a block make has returned: ContextMap::remove takes
\* the lock, lines 185 and 106.
RemoveLock(t, b) ==
  /\ Running
  /\ pc[t] = "idle"
  /\ blocks[b].state = "made"
  /\ ExclusiveUse(t, blocks[b].handle)
  /\ m_mutex = NoThread
  /\ m_mutex' = t
  /\ self' = [self EXCEPT ![t] = b]
  /\ llvmContext' = [llvmContext EXCEPT ![t] = blocks[b].handle]
  /\ pc' = [pc EXCEPT ![t] = "remove"]
  /\ UNCHANGED <<m_map, cacheListVars, m_llvmContext, m_dialectContext, blocks,
                 nextBlock, keyVars, ret, snap, fault>>
  /\ UNCHANGED declVars

\* ContextMap::remove(h, b) called with any arguments, lines 104-106: the
\* member function itself, whoever calls it.  (The destructor's call, with
\* the block's own context, is RemoveLock.)
RemoveCall(t, h, b) ==
  /\ Running
  /\ pc[t] = "idle"
  /\ ExclusiveUse(t, h)
  /\ m_mutex = NoThread
  /\ m_mutex' = t
  /\ self' = [self EXCEPT ![t] = b]
  /\ llvmContext' = [llvmContext EXCEPT ![t] = h]
  /\ pc' = [pc EXCEPT ![t] = "remove"]
  /\ UNCHANGED <<m_map, cacheListVars, m_llvmContext, m_dialectContext, blocks,
                 nextBlock, keyVars, ret, snap, fault>>
  /\ UNCHANGED declVars

\* A remove without the scrub loop.
ScrubbedNothing(h) == m_llvmContext

\* A scrub loop that stops after the first cache of the list.
ScrubbedHeadOnly(h) ==
  [u \in Threads |->
     IF u = m_caches /\ m_llvmContext[u] = h THEN nullptr
     ELSE m_llvmContext[u]]

\* Lines 144-147: every registered cache that holds h gets nullptr.
Scrubbed(h) ==
  [u \in Threads |->
     IF u \in RegisteredCaches /\ m_llvmContext[u] = h THEN nullptr
     ELSE m_llvmContext[u]]

\* ContextMap::remove, lines 107-148: assert, erase, scrub, unlock.
Remove(t) ==
  /\ Running
  /\ pc[t] = "remove"
  /\ m_mutex = t
  /\ IF MapLookup(m_map, llvmContext[t]) = self[t]
       THEN /\ m_map' = MapErase(m_map, llvmContext[t])
            /\ m_llvmContext' = Scrubbed(llvmContext[t])
            /\ m_mutex' = NoThread
            /\ blocks' = [blocks EXCEPT ![self[t]].state = "unregistered"]
            /\ pc' = [pc EXCEPT ![t] = "dtor_slots"]
            /\ UNCHANGED fault
       ELSE /\ fault' = "assert_remove"
            /\ pc' = [pc EXCEPT ![t] = "abort"]
            /\ UNCHANGED <<m_map, m_llvmContext, m_mutex, blocks>>
  /\ UNCHANGED <<cacheListVars, m_dialectContext, nextBlock, keyVars,
                 llvmContext, self, ret, snap>>
  /\ UNCHANGED declVars

\* ~DialectContext(), lines 187-192: delete every slot's dialect, then
\* operator delete frees the block.
DtorSlots(t) ==
  /\ Running
  /\ pc[t] = "dtor_slots"
  /\ blocks' = [blocks EXCEPT ![self[t]] = FreedBlock(blocks[self[t]].handle)]
  /\ pc' = [pc EXCEPT ![t] = "idle"]
  /\ self' = [self EXCEPT ![t] = nullptr]
  /\ llvmContext' = [llvmContext EXCEPT ![t] = nullptr]
  /\ UNCHANGED <<registryVars, nextBlock, keyVars, ret, snap, fault>>
  /\ UNCHANGED declVars

\* ------------------------- the same operations, with the wait for the mutex
\* MakeBegin, RemoveLock and CacheDtorLock are a call together with its
\* lock_guard.  Here the call and the acquisition are two steps, so that a
\* thread can be seen waiting for the mutex.

\* DialectContext::make up to the entry of ContextMap::insert (196-203,
\* 179-181, 96-97).
MakeCall(t, h, dialects) ==
  /\ Running
  /\ pc[t] = "idle"
  /\ ExclusiveUse(t, h)
  /\ nextBlock <= MaxBlocks
  /\ blocks' = [blocks EXCEPT ![nextBlock] =
                  [state |-> "header", handle |-> h,
                   size |-> dialectArraySize(dialects),
                   slots |-> [i \in 1..dialectArraySize(dialects) |-> Uninit],
                   dialects |-> dialects, noKeyYet |-> (keysCreated = 0)]]
  /\ nextBlock' = nextBlock + 1
  /\ self' = [self EXCEPT ![t] = nextBlock]
  /\ llvmContext' = [llvmContext EXCEPT ![t] = h]
  /\ pc' = [pc EXCEPT ![t] = "insert_lock"]
  /\ UNCHANGED <<registryVars, keyVars, ret, snap, fault>>
  /\ UNCHANGED declVars

\* ContextMap::insert, line 98.
InsertAcquire(t) ==
  /\ Running
  /\ pc[t] = "insert_lock"
  /\ m_mutex = NoThread
  /\ m_mutex' = t
  /\ pc' = [pc EXCEPT ![t] = "insert"]
  /\ UNCHANGED <<m_map, cacheListVars, m_llvmContext, m_dialectContext, blocks,
                 nextBlock, keyVars, llvmContext, self, ret, snap, fault>>
  /\ UNCHANGED declVars

\* ~DialectContext() up to the entry of ContextMap::remove (184-185, 104-105).
DtorCall(t, b) ==
  /\ Running
  /\ pc[t] = "idle"
  /\ blocks[b].state = "made"
  /\ ExclusiveUse(t, blocks[b].handle)
  /\ self' = [self EXCEPT ![t] = b]
  /\ llvmContext' = [llvmContext EXCEPT ![t] = blocks[b].handle]
  /\ pc' = [pc EXCEPT ![t] = "remove_lock"]
  /\ UNCHANGED <<registryVars, blocks, nextBlock, keyVars, ret, snap, fault>>
  /\ UNCHANGED declVars

\* ContextMap::remove, line 106.
RemoveAcquire(t) ==
  /\ Running
  /\ pc[t] = "remove_lock"
  /\ m_mutex = NoThread
  /\ m_mutex' = t
  /\ pc' = [pc EXCEPT ![t] = "remove"]
  /\ UNCHANGED <<m_map, cacheListVars, m_llvmContext, m_dialectContext, blocks,
                 nextBlock, keyVars, llvmContext, self, ret, snap, fault>>
  /\ UNCHANGED declVars

\* Thread exit: ~CurrentContextCache() is entered, lines 74-75.
ThreadExit(t) ==
  /\ Running
  /\ pc[t] = "idle"
  /\ cacheLive[t]
  /\ pc' = [pc EXCEPT ![t] = "cache_dtor_lock"]
  /\ UNCHANGED <<registryVars, blocks, nextBlock, keyVars, llvmContext, self,
                 ret, snap, fault>>
  /\ UNCHANGED declVars

\* ~CurrentContextCache(), line 76.
CacheDtorAcquire(t) ==
  /\ Running
  /\ pc[t] = "cache_dtor_lock"
  /\ m_mutex = NoThread
  /\ m_mutex' = t
  /\ pc' = [pc EXCEPT ![t] = "cache_dtor"]
  /\ UNCHANGED <<m_map, cacheListVars, m_llvmContext, m_dialectContext, blocks,
                 nextBlock, keyVars, llvmContext, self, ret, snap, fault>>
  /\ UNCHANGED declVars

\* The positions at which a thread is about to lock m_mutex.
AcquirePcs == {"cache_lock", "get_lock", "insert_lock", "remove_lock",
               "cache_dtor_lock"}

\* The step of thread t that locks m_mutex (std::lock_guard, lines 66, 76,
\* 88, 98, 106): it waits until the mutex is free.
Acquire(t) ==
  \/ CacheCtorLock(t)
  \/ GetLock(t)
  \/ InsertAcquire(t)
  \/ RemoveAcquire(t)
  \/ CacheDtorAcquire(t)

\* The steps of thread t that wait for nothing: the code of an operation
\* under way, outside lock acquisition.
Proceed(t) ==
  \/ CacheCtor(t)
  \/ CacheDtor(t)
  \/ GetLoad(t)
  \/ GetSlow(t)
  \/ GetDeref(t)
  \/ Insert(t)
  \/ MakeFinish(t)
  \/ Remove(t)
  \/ DtorSlots(t)

\* ------------------------------- is*OperationDecl (217-230), pure functions
\* A prefix test that accepts every name.
StartsWithAnything(s, prefix) == TRUE

\* StringRef::startswith(Prefix), line 227: the length test, then the
\* characters compared.
StartsWith(s, prefix) ==
  /\ Len(s) >= Len(prefix)
  /\ \A i \in 1..Len(prefix) : s[i] = prefix[i]

\* Lines 217-220: fn->getName() == name.
isSimpleOperationDecl(fn, nm) == fn = nm

\* Lines 222-230.
isOverloadedOperationDecl(fn, nm) ==
  IF Len(nm) >= Len(fn) THEN FALSE
  ELSE IF ~StartsWith(fn, nm) THEN FALSE
  ELSE fn[Len(nm) + 1] = "."

IsSimpleOperationDeclCall ==
  /\ simpleRet = <<>>
  /\ simpleRet' = <<isSimpleOperationDecl(fnName, name)>>
  /\ UNCHANGED <<registryVars, blocks, nextBlock, keyVars, pc, llvmContext,
                 self, ret, snap, fault, fnName, name, overloadedRet>>

IsOverloadedOperationDeclCall ==
  /\ overloadedRet = <<>>
  /\ overloadedRet' = <<isOverloadedOperationDecl(fnName, name)>>
  /\ UNCHANGED <<registryVars, blocks, nextBlock, keyVars, pc, llvmContext,
                 self, ret, snap, fault, fnName, name, simpleRet>>

\* No call of the name predicates is under way.
NoDeclCall ==
  /\ fnName = <<>>
  /\ name = <<>>
  /\ simpleRet = <<>>
  /\ overloadedRet = <<>>

\* ------------------------------------------------------- specifications
InitRegistry ==
  /\ m_mutex = NoThread
  /\ m_map = {}
  /\ m_caches = nullptr
  /\ cacheLive = [t \in Threads |-> FALSE]
  /\ m_llvmContext = [t \in Threads |-> nullptr]
  /\ m_dialectContext = [t \in Threads |-> nullptr]
  /\ m_pprev = [t \in Threads |-> 0]
  /\ m_next = [t \in Threads |-> nullptr]
  /\ blocks = [b \in BlockIds |-> FreeBlock]
  /\ nextBlock = 1
  /\ pc = [t \in Threads |-> "idle"]
  /\ llvmContext = [t \in Threads |-> nullptr]
  /\ self = [t \in Threads |-> nullptr]
  /\ ret = [t \in Threads |-> nullptr]
  /\ snap = [t \in Threads |-> <<nullptr, nullptr>>]
  /\ fault = "none"

\* One dialect key was registered at load time (static initialisation);
\* keys are not created or destroyed while the threads run.
Init ==
  /\ InitRegistry
  /\ keys = <<1>>
  /\ m_index = [k \in KeyIds |-> IF k = 1 THEN 0 ELSE UINT_MAX]
  /\ keysCreated = 1
  /\ peakKeys = 1
  /\ NoDeclCall

Next ==
  \E t \in Workers :
    \/ \E h \in Contexts : GetCall(t, h)
    \/ CacheCtorLock(t)
    \/ CacheCtor(t)
    \/ CacheDtorLock(t)
    \/ CacheDtor(t)
    \/ GetLoad(t)
    \/ GetLock(t)
    \/ GetSlow(t)
    \/ GetDeref(t)
    \/ \E h \in Contexts : MakeBegin(t, h, RegisteredDescs)
    \/ Insert(t)
    \/ MakeFinish(t)
    \/ \E b \in BlockIds : RemoveLock(t, b)
    \/ Remove(t)
    \/ DtorSlots(t)

Spec == Init /\ [][Next]_vars

\* Keys are created and destroyed (one call at a time: the key table is not
\* thread-safe) while thread 1 makes and destroys blocks of context 1 for
\* any selection of the keys registered at the time.
InitKeys ==
  /\ InitRegistry
  /\ keys = <<>>
  /\ m_index = [k \in KeyIds |-> UINT_MAX]
  /\ keysCreated = 0
  /\ peakKeys = 0
  /\ NoDeclCall

NextKeys ==
  \/ \E k \in KeyIds : KeyCtor(k)
  \/ \E k \in KeyIds : KeyDtor(k)
  \/ \E ds \in SUBSET RegisteredDescs : MakeBegin(1, 1, ds)
  \/ Insert(1)
  \/ MakeFinish(1)
  \/ \E b \in BlockIds : RemoveLock(1, b)
  \/ Remove(1)
  \/ DtorSlots(1)

SpecKeys == InitKeys /\ [][NextKeys]_vars

\* The threads' operations, and ContextMap::remove called for any pair of a
\* context and a block.
NextRemove ==
  \/ Next
  \/ \E t \in Workers, h \in Contexts, b \in BlockIds : RemoveCall(t, h, b)

SpecRemove == Init /\ [][NextRemove]_vars

\* Every thread looks up context 1 (constructing its cache on its first
\* lookup) and exits (destroying its cache), in any order, while thread 1
\* also makes and destroys the blocks of context 1.
NextCaches ==
  \/ \E t \in Threads :
       \/ GetCall(t, 1)
       \/ CacheCtorLock(t)
       \/ CacheCtor(t)
       \/ CacheDtorLock(t)
       \/ CacheDtor(t)
       \/ GetLoad(t)
       \/ GetLock(t)
       \/ GetSlow(t)
       \/ GetDeref(t)
  \/ MakeBegin(1, 1, RegisteredDescs)
  \/ Insert(1)
  \/ MakeFinish(1)
  \/ \E b \in BlockIds : RemoveLock(1, b)
  \/ Remove(1)
  \/ DtorSlots(1)

SpecCaches == Init /\ [][NextCaches]_vars

\* The threads' operations with every wait for the mutex a step of its own,
\* under fair scheduling: a thread that can run does run, and a thread
\* waiting for the mutex gets it when the mutex is free again and again.
NextLive ==
  \E t \in Workers :
    \/ \E h \in Contexts : GetCall(t, h)
    \/ \E h \in Contexts :
         nextBlock <= MaxLiveBlocks /\ MakeCall(t, h, RegisteredDescs)
    \/ \E b \in BlockIds : DtorCall(t, b)
    \/ ThreadExit(t)
    \/ Acquire(t)
    \/ Proceed(t)

Fairness ==
  \A t \in Workers : WF_vars(Proceed(t)) /\ SF_vars(Acquire(t))

SpecLive == Init /\ [][NextLive]_vars /\ Fairness

\* The name predicates applied to every pair of a function name and an
\* operation name of up to MaxNameLen characters.
InitDecl ==
  /\ InitRegistry
  /\ keys = <<>>
  /\ m_index = [k \in KeyIds |-> UINT_MAX]
  /\ keysCreated = 0
  /\ peakKeys = 0
  /\ fnName \in Names
  /\ name \in Names
  /\ simpleRet = <<>>
  /\ overloadedRet = <<>>

NextDecl ==
  \/ IsSimpleOperationDeclCall
  \/ IsOverloadedOperationDeclCall

SpecDecl == InitDecl /\ [][NextDecl]_vars

\* ----------------------------------------------------------- properties
Registered(h) == \E b \in BlockIds : <<h, b>> \in m_map

\* C1 (Uniqueness): a context never has two blocks in the registry; a thread
\* that got past ContextMap::insert has registered its own block, and an
\* insert for a context that is already registered stops the process on the
\* assertion with the registry unchanged (the earlier block stays, the new
\* one is not registered).
C1_Uniqueness ==
  /\ \A h \in Contexts : Cardinality({b \in BlockIds : <<h, b>> \in m_map}) <= 1
  /\ \A t \in Threads :
       pc[t] = "make_fill" => <<llvmContext[t], self[t]>> \in m_map
  /\ \A t \in Threads :
       pc[t] = "abort" =>
         /\ fault = "assert_insert"
         /\ <<llvmContext[t], self[t]>> \notin m_map
         /\ \E b \in BlockIds \ {self[t]} : <<llvmContext[t], b>> \in m_map

\* C1 witness: a second make for a registered context has hit the assertion.
C1_Witness ==
  \E t \in Threads :
    /\ pc[t] = "abort"
    /\ fault = "assert_insert"
    /\ \E b \in BlockIds \ {self[t]} :
         <<llvmContext[t], b>> \in m_map /\ blocks[b].state = "made"

\* C2 (Lookup correctness): a lookup of a registered context returns exactly
\* the block the registry holds for it, whatever the thread's cache held
\* when the call read it.
C2_LookupCorrect ==
  \A t \in Threads :
    pc[t] = "get_deref" =>
      \A b \in BlockIds : <<llvmContext[t], b>> \in m_map => ret[t] = b

\* C2 witness: two threads have looked up the same registered context, one
\* whose cache held another context (slow path), one whose cache held this
\* context (fast path); both got the registered block.
C2_Witness ==
  \E t \in Threads, u \in Threads :
    /\ t # u
    /\ pc[t] = "get_deref" /\ pc[u] = "get_deref"
    /\ llvmContext[t] = llvmContext[u]
    /\ <<llvmContext[t], ret[t]>> \in m_map
    /\ ret[u] = ret[t]
    /\ snap[t][1] \notin {nullptr, llvmContext[t]}
    /\ snap[u][1] = llvmContext[u]

\* C3 (Cache coherence under address reuse): when the block a thread's cache
\* pointed at was the block of context h and has been destroyed, and h is
\* registered again, a lookup of h by that thread returns the block now
\* registered, not the destroyed one.
C3_AddressReuse ==
  \A t \in Threads :
    ( /\ pc[t] = "get_deref"
      /\ snap[t][2] # nullptr
      /\ blocks[snap[t][2]].state = "freed"
      /\ blocks[snap[t][2]].handle = llvmContext[t]
      /\ Registered(llvmContext[t]) )
    => /\ ret[t] # snap[t][2]
       /\ <<llvmContext[t], ret[t]>> \in m_map

\* C3 witness: the thread's cache pointed at the destroyed block of h, its
\* handle had been scrubbed, and the lookup returned the new block of h.
C3_Witness ==
  \E t \in Threads :
    /\ pc[t] = "get_deref"
    /\ snap[t][1] = nullptr
    /\ snap[t][2] # nullptr
    /\ blocks[snap[t][2]].state = "freed"
    /\ blocks[snap[t][2]].handle = llvmContext[t]
    /\ ret[t] # nullptr
    /\ ret[t] # snap[t][2]
    /\ blocks[ret[t]].state = "made"

\* C4 (Teardown visibility): a lookup of a context that has no registry
\* entry (its block was destroyed and it was not registered again) misses
\* the cache and returns no block; the caller then runs into the
\* unregistered-handle outcome.  No cache holds an unregistered context.
C4_TeardownVisibility ==
  /\ \A t \in Threads :
       (pc[t] = "get_deref" /\ ~Registered(llvmContext[t])) =>
         /\ ret[t] = nullptr
         /\ snap[t][1] # llvmContext[t]
  /\ \A t \in Threads :
       pc[t] = "undefined" =>
         /\ fault = "null_deref"
         /\ ret[t] = nullptr
         /\ ~Registered(llvmContext[t])

\* C4 witness: a thread whose cache pointed at the destroyed block of h
\* looked h up after the destruction and got the unregistered outcome.
C4_Witness ==
  \E t \in Threads :
    /\ pc[t] = "undefined"
    /\ snap[t][2] # nullptr
    /\ blocks[snap[t][2]].state = "freed"
    /\ blocks[snap[t][2]].handle = llvmContext[t]

\* C5 (Concurrent stress): while other threads create and destroy blocks, a
\* lookup of a registered context returns a block that is not null, belongs
\* to that context and is alive.
C5_Stress ==
  \A t \in Threads :
    (pc[t] = "get_deref" /\ Registered(llvmContext[t])) =>
      /\ ret[t] # nullptr
      /\ blocks[ret[t]].handle = llvmContext[t]
      /\ blocks[ret[t]].state = "made"

\* C5 witness: the lookup returned its block while another thread was
\* destroying the block of the context the looking thread's cache held.
C5_Witness ==
  \E t \in Threads, u \in Threads :
    /\ t # u
    /\ pc[t] = "get_deref"
    /\ ret[t] # nullptr
    /\ pc[u] \in DtorPcs
    /\ snap[t][1] = llvmContext[u]
    /\ snap[t][2] = self[u]
    /\ llvmContext[t] # llvmContext[u]

\* C6 as stated (Registry entry invariant): every registry entry maps to a
\* fully constructed block (array initialised, dialects installed) that is
\* not being torn down.
C6_Original ==
  \A e \in m_map :
    /\ blocks[e[2]].state = "made"
    /\ \A i \in 1..Len(blocks[e[2]].slots) :
         blocks[e[2]].slots[i] # Uninit

\* C6 as amended: every registry entry maps to a block of that context whose
\* header is constructed and whose teardown has not destroyed anything; the
\* entry appears in the constructor, before make has initialised the array
\* (state "header", make still running), and is gone before any slot is
\* deleted.
C6_Amended ==
  \A e \in m_map :
    /\ blocks[e[2]].handle = e[1]
    /\ blocks[e[2]].state \in {"header", "made"}
    /\ blocks[e[2]].state = "header" =>
         \E t \in Threads : pc[t] = "make_fill" /\ self[t] = e[2]
    /\ blocks[e[2]].state = "made" =>
         \A i \in 1..Len(blocks[e[2]].slots) :
           blocks[e[2]].slots[i] # Uninit

\* C6 witness: a registered block whose slot array is still uninitialised.
C6_Witness ==
  \E e \in m_map :
    /\ blocks[e[2]].state = "header"
    /\ blocks[e[2]].size > 0
    /\ \A i \in 1..Len(blocks[e[2]].slots) : blocks[e[2]].slots[i] = Uninit

\* C7 (Teardown ordering): a block whose destructor is past
\* ContextMap::remove (its slots are about to be or have been deleted) has
\* no registry entry and no cache maps its context to it, and no lookup
\* returns such a block.
C7_TeardownOrder ==
  /\ \A b \in BlockIds :
       blocks[b].state \in {"unregistered", "freed"} =>
         /\ \A h \in Contexts : <<h, b>> \notin m_map
         /\ \A u \in Threads :
              ~(m_llvmContext[u] = blocks[b].handle /\ m_dialectContext[u] = b)
  /\ \A t \in Threads :
       (pc[t] = "get_deref" /\ ret[t] # nullptr) =>
         blocks[ret[t]].state \notin {"unregistered", "freed"}

\* C7 witness: a lookup returned while another thread, past remove, was
\* about to delete the slots of the block the looking thread's cache
\* pointed at.
C7_Witness ==
  \E t \in Threads, u \in Threads :
    /\ t # u
    /\ pc[u] = "dtor_slots"
    /\ blocks[self[u]].state = "unregistered"
    /\ pc[t] = "get_deref"
    /\ ret[t] # nullptr
    /\ snap[t][2] = self[u]

\* The largest element of a non-empty set of numbers.
MaxOf(S) == CHOOSE m \in S : \A x \in S : x <= m

\* C8 (Slot reuse): a key constructor gives the new key the lowest-numbered
\* empty slot of the table and leaves the table length unchanged; only when
\* no slot is empty does it give the key a new slot equal to the table
\* length, growing the table by one.  No other slot changes.
C8_SlotReuse ==
  [][\A k \in KeyIds :
       (m_index[k] = UINT_MAX /\ m_index'[k] # UINT_MAX) =>
         LET i == m_index'[k] IN
           /\ i \in 0..Len(keys)
           /\ \A j \in 1..i : keys[j] # nullptr
           /\ i < Len(keys) => (keys[i + 1] = nullptr /\ Len(keys') = Len(keys))
           /\ i = Len(keys) => Len(keys') = Len(keys) + 1
           /\ keys'[i + 1] = k
           /\ \A j \in 1..Len(keys) : j # i + 1 => keys'[j] = keys[j]]_vars

\* C8 witness: after three constructor calls key 1 is destroyed, key 2 has
\* slot 0 and key 3 has slot 1 in a table of two slots: slot 0 or 1 was
\* released and given out again (k1 got 0, was destroyed, k2 got 0, k3 got
\* the new highest slot).
C8_Witness ==
  /\ keysCreated = 3
  /\ keys = <<2, 3>>
  /\ m_index[1] = UINT_MAX
  /\ m_index[2] = 0
  /\ m_index[3] = 1

\* C9 (Block sizing): a block make has finished has max(supplied slot
\* indices) + 1 slots (none for an empty set); every supplied index holds
\* the object made for it and every other index is null.
C9_BlockSizing ==
  \A b \in BlockIds :
    blocks[b].state = "made" =>
      LET ds == blocks[b].dialects
          n == IF ds = {} THEN 0 ELSE MaxOf(ds) + 1
      IN  /\ blocks[b].size = n
          /\ Len(blocks[b].slots) = n
          /\ \A i \in 0..(n - 1) :
               blocks[b].slots[i + 1] =
                 IF i \in ds THEN MadeDialect(i) ELSE nullptr

\* C9 witness: a block made for slots {0, 2} has 3 slots and slot 1 is null.
C9_Witness ==
  \E b \in BlockIds :
    /\ blocks[b].state = "made"
    /\ blocks[b].dialects = {0, 2}
    /\ blocks[b].size = 3
    /\ blocks[b].slots[2] = nullptr
    /\ blocks[b].slots[1] = MadeDialect(0)
    /\ blocks[b].slots[3] = MadeDialect(2)

\* A block is being created in this step for all the keys registered now.
MadeForAllKeys(b) ==
  /\ blocks[b].state = "free"
  /\ blocks'[b].state = "header"
  /\ blocks'[b].dialects = RegisteredDescs

\* C10 as stated (Dense slot namespace): a block created from all currently
\* registered keys has at most as many slots as keys are registered now.
C10_Original ==
  [][\A b \in BlockIds :
       MadeForAllKeys(b) => blocks'[b].size <= Cardinality(RegisteredKeys)]_vars

\* C10 as amended: a block created from all currently registered keys has at
\* most as many slots as the key table is long, and the table is as long as
\* the largest number of keys that were registered at one time, which is at
\* most the number of keys ever created.
C10_Amended ==
  [][\A b \in BlockIds :
       MadeForAllKeys(b) =>
         /\ blocks'[b].size <= Len(keys)
         /\ Len(keys) = peakKeys
         /\ peakKeys <= keysCreated]_vars

\* C10 witness: a block just created from all registered keys has more slots
\* than keys are registered and fewer than keys were ever created.
C10_Witness ==
  \E b \in BlockIds :
    /\ blocks[b].state = "header"
    /\ blocks[b].dialects = RegisteredDescs
    /\ blocks[b].size > Cardinality(RegisteredKeys)
    /\ blocks[b].size < keysCreated

\* C11 (Blocks are not resizable): a block that make has finished keeps its
\* slot count and slot contents in every later step until it is destroyed;
\* a step that creates or destroys a key changes no block at all, so the
\* block gets no slot and no object for a key registered after it was made:
\* at the new key's index the block has no slot, or the very content it had
\* before the key existed.
C11_NotResizable ==
  [][\A b \in BlockIds :
       /\ (blocks[b].state = "made" /\ blocks'[b].state = "made") =>
            /\ blocks'[b].size = blocks[b].size
            /\ blocks'[b].slots = blocks[b].slots
       /\ (keys' # keys \/ m_index' # m_index) => blocks'[b] = blocks[b]
       /\ \A k \in KeyIds :
            ( /\ m_index[k] = UINT_MAX
              /\ m_index'[k] # UINT_MAX
              /\ blocks[b].state = "made" ) =>
              /\ Len(blocks'[b].slots) = blocks[b].size
              /\ m_index'[k] < blocks[b].size =>
                   blocks'[b].slots[m_index'[k] + 1] =
                     blocks[b].slots[m_index'[k] + 1]]_vars

\* C11 witness: a block was made before any key existed (it has no slots);
\* two keys were created afterwards and have slots 0 and 1; the block still
\* has no slots.
C11_Witness ==
  \E b \in BlockIds :
    /\ blocks[b].state = "made"
    /\ blocks[b].noKeyYet
    /\ blocks[b].size = 0
    /\ blocks[b].slots = <<>>
    /\ Len(keys) = 2
    /\ keys[1] # nullptr /\ m_index[keys[1]] = 0
    /\ keys[2] # nullptr /\ m_index[keys[2]] = 1

\* C12 (remove rejects a mismatch): a remove(h, b) succeeds only when the
\* registry maps h to b; when it maps h to another block or has no entry for
\* h, the call stops on the assertion and has removed nothing: the map, the
\* caches and the blocks are as before.
C12_RemoveMismatch ==
  [][\A t \in Threads :
       (pc[t] = "remove" /\ pc'[t] # "remove") =>
         IF <<llvmContext[t], self[t]>> \in m_map
           THEN /\ fault' = "none"
                /\ pc'[t] = "dtor_slots"
                /\ m_map' = m_map \ {<<llvmContext[t], self[t]>>}
           ELSE /\ fault' = "assert_remove"
                /\ pc'[t] = "abort"
                /\ m_map' = m_map
                /\ m_llvmContext' = m_llvmContext
                /\ m_dialectContext' = m_dialectContext
                /\ blocks' = blocks]_vars

\* C12 witness: remove(h, b) was called with the block of another context
\* while h was registered with its own block; the call stopped on the
\* assertion and both entries are still there.
C12_Witness ==
  \E t \in Threads :
    /\ pc[t] = "abort"
    /\ fault = "assert_remove"
    /\ \E b \in BlockIds \ {self[t]} : <<llvmContext[t], b>> \in m_map
    /\ \E h \in Contexts \ {llvmContext[t]} : <<h, self[t]>> \in m_map

\* The positions a thread is in right after it has locked m_mutex.
LockedPcs == {"cache_ctor", "cache_dtor", "get_slow", "insert", "remove"}

\* C13 (Lock-free fast path): a lookup whose cache holds the requested
\* context can take its step whoever holds the mutex, returns the cached
\* block and leaves the mutex alone; a lookup whose cache holds something
\* else goes on to lock the mutex.  The mutex is only ever taken, when it is
\* free, by the cache constructor and destructor, by insert, by remove and
\* by a lookup that missed its cache.
C13_LockFreeFastPath ==
  /\ [](\A t \in Threads :
          (Running /\ pc[t] = "get_load"
             /\ m_llvmContext[t] = llvmContext[t]) => ENABLED GetLoad(t))
  /\ [][\A t \in Threads :
          /\ ( /\ pc[t] = "get_load" /\ pc'[t] # "get_load"
               /\ m_llvmContext[t] = llvmContext[t] ) =>
               /\ pc'[t] = "get_deref"
               /\ ret'[t] = m_dialectContext[t]
               /\ m_mutex' = m_mutex
          /\ ( /\ pc[t] = "get_load" /\ pc'[t] # "get_load"
               /\ m_llvmContext[t] # llvmContext[t] ) =>
               /\ pc'[t] = "get_lock"
               /\ m_mutex' = m_mutex
          /\ (m_mutex # t /\ m_mutex' = t) =>
               /\ m_mutex = NoThread
               /\ pc[t] \notin LockedPcs
               /\ pc'[t] \in LockedPcs
          /\ (pc[t] # "get_slow" /\ pc'[t] = "get_slow") =>
               snap[t][1] # llvmContext[t]]_vars

\* C13 witness: a lookup has returned the cached block on the fast path
\* while another thread holds the mutex inside remove.
C13_Witness ==
  \E t \in Threads, u \in Threads :
    /\ t # u
    /\ pc[t] = "get_deref"
    /\ snap[t][1] = llvmContext[t]
    /\ ret[t] = snap[t][2]
    /\ ret[t] # nullptr
    /\ m_mutex = u
    /\ pc[u] = "remove"

\* C14 (Overloaded-name predicate): isOverloadedOperationDecl returns true
\* exactly when the function's name is strictly longer than name, its first
\* length(name) characters are name, and the character after them is '.';
\* when the function's name equals name it returns false and
\* isSimpleOperationDecl returns true.
C14_OverloadedDecl ==
  /\ overloadedRet # <<>> =>
       ( overloadedRet[1] <=>
           /\ Len(fnName) > Len(name)
           /\ SubSeq(fnName, 1, Len(name)) = name
           /\ fnName[Len(name) + 1] = "." )
  /\ simpleRet # <<>> => (simpleRet[1] <=> fnName = name)
  /\ (fnName = name /\ overloadedRet # <<>>) => ~overloadedRet[1]
  /\ (fnName = name /\ simpleRet # <<>>) => simpleRet[1]

\* C14 witness: for the function name "a.b" and the operation name "a" the
\* overloaded predicate returned true and the simple one false.
C14_Witness ==
  /\ fnName = <<"a", ".", "b">>
  /\ name = <<"a">>
  /\ overloadedRet = <<TRUE>>
  /\ simpleRet = <<FALSE>>

\* C15 (Scrub postcondition): the step in which remove(h, b) succeeds is one
\* critical section that takes h's entry out of the map and sets to null
\* the handle of exactly the constructed caches that held h, whoever owns
\* them; afterwards no constructed cache holds h; every other cache handle,
\* every cached block pointer, the cache list and every other map entry are
\* as before.
C15_ScrubPostcondition ==
  [][\A t \in Threads :
       (pc[t] = "remove" /\ pc'[t] = "dtor_slots") =>
         /\ m_mutex = t
         /\ m_mutex' = NoThread
         /\ <<llvmContext[t], self[t]>> \in m_map
         /\ m_map' = m_map \ {<<llvmContext[t], self[t]>>}
         /\ \A u \in Threads :
              m_llvmContext'[u] =
                IF cacheLive[u] /\ m_llvmContext[u] = llvmContext[t]
                  THEN nullptr
                  ELSE m_llvmContext[u]
         /\ \A u \in Threads : cacheLive'[u] => m_llvmContext'[u] # llvmContext[t]
         /\ m_dialectContext' = m_dialectContext
         /\ UNCHANGED cacheListVars]_vars

\* C15 witness: remove has just succeeded for block b of context h; the
\* cache of another thread, which had cached (h, b), has lost its handle;
\* the remover's own cache still holds another context, which is still
\* registered.
C15_Witness ==
  \E t \in Threads, u \in Threads :
    /\ t # u
    /\ pc[t] = "dtor_slots"
    /\ cacheLive[u]
    /\ m_dialectContext[u] = self[t]
    /\ m_llvmContext[u] = nullptr
    /\ cacheLive[t]
    /\ m_llvmContext[t] \notin {nullptr, llvmContext[t]}
    /\ <<m_llvmContext[t], m_dialectContext[t]>> \in m_map

\* Every lookup so far was issued for a context that was registered: none
\* has returned null, and the ones under way are for registered contexts.
OnlyRegisteredLookups ==
  /\ fault # "null_deref"
  /\ \A t \in Threads : pc[t] \in GetPcs => Registered(llvmContext[t])

\* C16 (Cache validity): as long as lookups are only issued for registered
\* contexts, in every state in which nobody holds the mutex every cache
\* whose handle is not null holds a registered context together with the
\* block the registry maps that context to.
C16_CacheValidity ==
  (m_mutex = NoThread /\ OnlyRegisteredLookups) =>
    \A u \in Threads :
      m_llvmContext[u] # nullptr =>
        <<m_llvmContext[u], m_dialectContext[u]>> \in m_map

\* C16 witness: nobody holds the mutex, two caches hold two different
\* registered contexts with their blocks, and one of the contexts had an
\* earlier block that has been destroyed (the cache was filled again after
\* the context was registered again).
C16_Witness ==
  \E t \in Threads, u \in Threads :
    /\ m_mutex = NoThread
    /\ OnlyRegisteredLookups
    /\ m_llvmContext[t] # nullptr
    /\ m_llvmContext[u] # nullptr
    /\ m_llvmContext[t] # m_llvmContext[u]
    /\ <<m_llvmContext[t], m_dialectContext[t]>> \in m_map
    /\ <<m_llvmContext[u], m_dialectContext[u]>> \in m_map
    /\ \E b \in BlockIds :
         blocks[b].state = "freed" /\ blocks[b].handle = m_llvmContext[t]

\* C17 (Single-mutex discipline): a thread is inside a critical section
\* exactly when it is the holder of m_mutex, so at most one thread is; and
\* every step that changes the map, the cache list or any cache's handle
\* (or cached block) is a step of the thread that holds m_mutex.
C17_SingleMutex ==
  /\ [](\A t \in Threads :
          (pc[t] \in LockedPcs \cup {"abort"}) <=> m_mutex = t)
  /\ [][( \/ m_map' # m_map
          \/ cacheListVars' # cacheListVars
          \/ m_llvmContext' # m_llvmContext
          \/ m_dialectContext' # m_dialectContext ) =>
          /\ m_mutex \in Threads
          /\ pc[m_mutex] \in LockedPcs
          /\ pc'[m_mutex] # pc[m_mutex]
          /\ \A u \in Threads \ {m_mutex} : pc'[u] = pc[u]]_vars

\* C17 witness: one thread holds the mutex inside remove, about to scrub
\* the cache of another thread, which holds the context being removed and
\* is waiting for the mutex on its slow path for another context.
C17_Witness ==
  \E t \in Threads, u \in Threads :
    /\ t # u
    /\ m_mutex = t
    /\ pc[t] = "remove"
    /\ pc[u] = "get_lock"
    /\ m_llvmContext[u] = llvmContext[t]
    /\ llvmContext[u] # llvmContext[t]

\* The list from c along m_next, as a sequence of at most fuel caches.
RECURSIVE CacheSeq(_, _)
CacheSeq(c, fuel) ==
  IF c = nullptr \/ fuel = 0 THEN <<>>
  ELSE <<c>> \o CacheSeq(m_next[c], fuel - 1)

\* The link a back-pointer points at: *m_pprev.
LinkAt(pp) == IF pp = 0 THEN m_caches ELSE m_next[pp]

\* C18 (Cache-list membership): the list that starts at m_caches ends after
\* at most one node per thread, contains every constructed cache exactly
\* once and no other cache, and every node's m_pprev points at the link
\* (m_caches or a predecessor's m_next) that points at the node; a cache
\* that is not constructed (never was, or was destroyed) is not on the list
\* the scrub loop walks.
C18_CacheList ==
  LET list == CacheSeq(m_caches, NumThreads + 1) IN
    /\ Len(list) <= NumThreads
    /\ \A i \in 1..Len(list), j \in 1..Len(list) : list[i] = list[j] => i = j
    /\ {list[i] : i \in 1..Len(list)} = {t \in Threads : cacheLive[t]}
    /\ \A t \in Threads : cacheLive[t] => LinkAt(m_pprev[t]) = t
    /\ \A i \in 2..Len(list) : m_pprev[list[i]] = list[i - 1]
    /\ Len(list) > 0 => m_pprev[list[1]] = 0
    /\ RegisteredCaches = {t \in Threads : cacheLive[t]}

\* C18 witness: three caches are on the list and the destructor of the
\* middle one is running (it holds the mutex and is about to unlink a node
\* that has both a predecessor and a successor).
C18_Witness ==
  \E t \in Threads :
    /\ pc[t] = "cache_dtor"
    /\ m_mutex = t
    /\ m_pprev[t] # 0
    /\ m_next[t] # nullptr
    /\ Len(CacheSeq(m_caches, NumThreads + 1)) = 3

\* C19 (Slot table invariant): every live key's index is inside the key
\* table and the table entry at that index is the key, so two live keys
\* never have the same index; every table entry that is not null is a live
\* key whose index is that entry's position (all other entries are empty);
\* and no step makes the table shorter.
C19_SlotTable ==
  /\ [](/\ \A k \in KeyIds :
            m_index[k] # UINT_MAX =>
              /\ m_index[k] \in 0..(Len(keys) - 1)
              /\ keys[m_index[k] + 1] = k
        /\ \A k1 \in KeyIds, k2 \in KeyIds :
            (k1 # k2 /\ m_index[k1] # UINT_MAX /\ m_index[k2] # UINT_MAX) =>
              m_index[k1] # m_index[k2]
        /\ \A i \in 1..Len(keys) :
            keys[i] # nullptr => m_index[keys[i]] = i - 1)
  /\ [][Len(keys') >= Len(keys)]_vars

\* C19 witness: after four constructor calls the table has three entries:
\* the first is empty again, the other two hold live keys (one slot was
\* released and reused, another released and not reused).
C19_Witness ==
  /\ keysCreated = 4
  /\ Len(keys) = 3
  /\ keys[1] = nullptr
  /\ keys[2] # nullptr /\ m_index[keys[2]] = 1
  /\ keys[3] # nullptr /\ m_index[keys[3]] = 2

====
